---- MODULE Spec2Model ----
(***************************************************************************)
(* Composite image splitter (scripts/split_image.py).                      *)
(*                                                                         *)
(* The segmentation engine is modelled operation by operation:             *)
(*   find_regions        the scan of one axis' blank/content flags         *)
(*   trim_white_border   the four independent edge scans of a sub-image    *)
(*   split_composite_image  classification, region grid, per cell trim,    *)
(*                          naming and emission of the slices              *)
(* Indices are 0-based as in the source; a Python list l is the sequence   *)
(* whose element l[i] is l[i + 1] here.                                    *)
(***************************************************************************)
EXTENDS Integers, Sequences, FiniteSets, TLC

VARIABLES
    pc,          \* position of the run
    is_white,    \* find_regions: the per line blank flags (line 124)
    min_size,    \* find_regions: closure variable min_size
    min_gap,     \* find_regions: closure variable min_gap
    regions,     \* find_regions: the returned list
    img_array,   \* trim_white_border: the sub-image
    max_trim,    \* trim_white_border: max_trim
    sides,       \* trim_white_border: the enabled sides, a set of letters
    trimmed,     \* trim_white_border: the returned (top, bottom, left, right)
    retrimmed,   \* the counts of a second call on the cropped sub-image
    arr,              \* split_composite_image: the pixels of the opened image
    white_threshold,  \* split_composite_image: white_threshold
    white_ratio,      \* split_composite_image: white_ratio, <<numerator, denominator>>
    trim,             \* split_composite_image: trim
    trim_max,         \* split_composite_image: trim_max
    trim_threshold,   \* split_composite_image: trim_threshold
    trim_sides,       \* split_composite_image: trim_sides, a set of letters
    suffix_template,  \* split_composite_image: suffix_template, a sequence of tokens
    suffix_list,      \* split_composite_image: suffix_list (<<>> for None)
    h_regions,        \* split_composite_image: the column intervals
    v_regions,        \* split_composite_image: the row intervals
    warnings,         \* the cycling warnings printed so far (line 161)
    vi,               \* the row index of the cell the loops are at (line 168)
    hi,               \* the column index of the cell the loops are at (line 169)
    count,            \* split_composite_image: count
    outputs,          \* the files saved so far, in order (line 200)
    row,              \* generate_output_filename: row
    col,              \* generate_output_filename: col
    total_cols,       \* generate_output_filename: total_cols
    output_name,      \* generate_output_filename: the returned name
    shifted_name,     \* the name returned for the index len(suffix_list) further
    args,             \* main: the parsed command line (line 346)
    input_kind,       \* main: what args.input is on disk: "file", "dir" or "missing"
    tree,             \* the directories os.walk yields, each the files of one directory
    di,               \* process_directory: the directory the walk is at
    fi,               \* process_directory: the file the loop is at
    total,            \* process_directory: total
    opened,           \* the files Image.open was called on, in order (line 109)
    made_dirs,        \* the number of os.makedirs calls (line 163)
    written,          \* the number of slices saved (line 200)
    exit_status,      \* how the process ended
    image_urls,       \* download_all: image_urls
    filenames,        \* ImageDownloader.filenames
    fetch_ok,         \* for each URL in turn, how its download goes
    url_index,        \* download_all: the loop index i
    success_count,    \* download_all: success_count
    failed_count,     \* download_all: failed_count
    metadata,         \* ImageDownloader.metadata
    attempts,         \* the URLs session.get was called on, in order (line 319)
    metadata_file,    \* metadata.json: <<>> until written, then its one document
    line_pixels,      \* one line of pixels given to both line classifiers
    seg_blank,        \* what is_white_row / is_white_column returns for the line
    edge_blank        \* what is_edge_white returns for the line

regionVars == <<is_white, min_size, min_gap, regions>>

trimVars == <<img_array, max_trim, sides, trimmed, retrimmed>>

splitVars ==
    <<arr, white_threshold, white_ratio, trim, trim_max, trim_threshold, trim_sides,
      suffix_template, suffix_list, h_regions, v_regions, warnings, vi, hi, count,
      outputs>>

nameVars == <<row, col, total_cols, output_name, shifted_name>>

mainVars ==
    <<args, input_kind, tree, di, fi, total, opened, made_dirs, written, exit_status>>

downloadVars ==
    <<image_urls, filenames, fetch_ok, url_index, success_count, failed_count, metadata, attempts,
      metadata_file>>

lineVars == <<line_pixels, seg_blank, edge_blank>>

vars ==
    <<pc, regionVars, trimVars, splitVars, nameVars, mainVars, downloadVars, lineVars>>

\* the value of a variable the run at hand does not use
Unused == "unused"

RegionsUnused ==
    /\ is_white = Unused
    /\ min_size = Unused
    /\ min_gap = Unused
    /\ regions = Unused

TrimUnused ==
    /\ img_array = Unused
    /\ max_trim = Unused
    /\ sides = Unused
    /\ trimmed = Unused
    /\ retrimmed = Unused

SplitUnused ==
    /\ arr = Unused
    /\ white_threshold = Unused
    /\ white_ratio = Unused
    /\ trim = Unused
    /\ trim_max = Unused
    /\ trim_threshold = Unused
    /\ trim_sides = Unused
    /\ h_regions = Unused
    /\ v_regions = Unused
    /\ warnings = Unused
    /\ vi = Unused
    /\ hi = Unused
    /\ count = Unused
    /\ outputs = Unused

\* suffix_template and suffix_list are arguments of generate_output_filename as well
NamingUnused ==
    /\ suffix_template = Unused
    /\ suffix_list = Unused
    /\ row = Unused
    /\ col = Unused
    /\ total_cols = Unused
    /\ output_name = Unused
    /\ shifted_name = Unused

MainUnused ==
    /\ args = Unused
    /\ input_kind = Unused
    /\ tree = Unused
    /\ di = Unused
    /\ fi = Unused
    /\ total = Unused
    /\ opened = Unused
    /\ made_dirs = Unused
    /\ written = Unused
    /\ exit_status = Unused

DownloadUnused ==
    /\ image_urls = Unused
    /\ filenames = Unused
    /\ fetch_ok = Unused
    /\ url_index = Unused
    /\ success_count = Unused
    /\ failed_count = Unused
    /\ metadata = Unused
    /\ attempts = Unused
    /\ metadata_file = Unused

LineUnused ==
    /\ line_pixels = Unused
    /\ seg_blank = Unused
    /\ edge_blank = Unused

(***************************************************************************)
(* Bounds of the model.                                                    *)
(***************************************************************************)
MaxAxis == 7
MaxMinSize == 3
MaxMinGap == 3

(***************************************************************************)
(* find_regions (split_image.py 123-147).                                  *)
(***************************************************************************)

\* is_white[i] of the source
IsWhiteAt(w, i) == w[i + 1]

\* lines 135-137: gap_end = i; while gap_end < axis_size and is_white[gap_end]: gap_end += 1
GapEndNoLookAhead(w, axis_size, gap_end) ==
    IF gap_end < axis_size /\ IsWhiteAt(w, gap_end) THEN gap_end + 1 ELSE gap_end

RECURSIVE GapEnd(_, _, _)
GapEnd(w, axis_size, gap_end) ==
    IF gap_end < axis_size /\ IsWhiteAt(w, gap_end)
    THEN GapEnd(w, axis_size, gap_end + 1)
    ELSE gap_end

\* line 139: the blank run starting at i is a separator
IsSeparatorStrict(gap_end, i, axis_size, mg) ==
    gap_end - i > mg \/ gap_end = axis_size

IsSeparatorNoEnd(gap_end, i, axis_size, mg) ==
    gap_end - i >= mg

IsSeparatorByIndex(gap_end, i, axis_size, mg) ==
    gap_end >= mg \/ gap_end = axis_size

IsSeparator(gap_end, i, axis_size, mg) ==
    gap_end - i >= mg \/ gap_end = axis_size

\* lines 140 and 144: a closed region [start, end) is kept
AcceptAll(start, end, ms) == TRUE

Accept(start, end, ms) == end - start >= ms

\* lines 126-128: the state of the scan before the loop
ScanStart == [in_region |-> FALSE, start |-> 0, regions |-> <<>>]

\* lines 131-142: the body of the for loop at index i, on the scan state st
LoopBody(w, axis_size, ms, mg, st, i) ==
    IF ~IsWhiteAt(w, i) /\ ~st.in_region
    THEN [st EXCEPT !.start = i, !.in_region = TRUE]
    ELSE IF IsWhiteAt(w, i) /\ st.in_region
    THEN IF IsSeparator(GapEnd(w, axis_size, i), i, axis_size, mg)
         THEN [st EXCEPT !.in_region = FALSE,
                         !.regions = IF Accept(st.start, i, ms)
                                     THEN Append(st.regions, <<st.start, i>>)
                                     ELSE st.regions]
         ELSE st
    ELSE st

\* line 130: for i in range(from, to), the passes taken in ascending order of i (the
\* range is halved so that the evaluation of a 300 line axis stays shallow)
RECURSIVE ScanRange(_, _, _, _, _, _, _)
ScanRange(w, axis_size, ms, mg, st, from, to) ==
    IF to <= from
    THEN st
    ELSE IF to = from + 1
    THEN LoopBody(w, axis_size, ms, mg, st, from)
    ELSE LET mid == (from + to) \div 2
             firstHalf == ScanRange(w, axis_size, ms, mg, st, from, mid)
         IN  \* the test has the first half evaluated before the second is entered
             IF firstHalf.in_region \in BOOLEAN
             THEN ScanRange(w, axis_size, ms, mg, firstHalf, mid, to)
             ELSE st

\* lines 144-145: the region still open when the loop is over
CloseTrailingAlways(st, axis_size, ms) ==
    IF Accept(st.start, axis_size, ms)
    THEN Append(st.regions, <<st.start, axis_size>>)
    ELSE st.regions

CloseTrailing(st, axis_size, ms) ==
    IF st.in_region /\ Accept(st.start, axis_size, ms)
    THEN Append(st.regions, <<st.start, axis_size>>)
    ELSE st.regions

\* lines 123-147
find_regions(w, axis_size, ms, mg) ==
    CloseTrailing(ScanRange(w, axis_size, ms, mg, ScanStart, 0, axis_size), axis_size, ms)

(***************************************************************************)
(* Specification of find_regions alone: every flag sequence of length      *)
(* 0..MaxAxis, every min_size and min_gap of the ranges below.             *)
(***************************************************************************)
BoolSeqs(n) == [1..n -> BOOLEAN]

FlagSeqs == UNION {BoolSeqs(n) : n \in 0..MaxAxis}

MinSizes == (-1)..MaxMinSize

MinGaps == (-1)..MaxMinGap

InitRegions ==
    /\ pc = "scan"
    /\ is_white \in FlagSeqs
    /\ min_size \in MinSizes
    /\ min_gap \in MinGaps
    /\ regions = <<>>
    /\ TrimUnused
    /\ SplitUnused
    /\ NamingUnused
    /\ MainUnused
    /\ DownloadUnused
    /\ LineUnused

CallFindRegions ==
    /\ pc = "scan"
    /\ regions' = find_regions(is_white, Len(is_white), min_size, min_gap)
    /\ pc' = "scanned"
    /\ UNCHANGED <<is_white, min_size, min_gap, trimVars, splitVars, nameVars>>
    /\ UNCHANGED <<mainVars, downloadVars, lineVars>>

NextRegions == CallFindRegions

SpecRegions == InitRegions /\ [][NextRegions]_vars

(***************************************************************************)
(* Vocabulary of the claims about find_regions.                            *)
(***************************************************************************)
AxisSize == Len(is_white)

\* the maximal runs of content lines, as half-open intervals
ContentRuns ==
    {r \in (0..AxisSize) \X (0..AxisSize) :
        /\ r[1] < r[2]
        /\ \A k \in r[1]..(r[2] - 1) : ~IsWhiteAt(is_white, k)
        /\ (r[1] = 0 \/ IsWhiteAt(is_white, r[1] - 1))
        /\ (r[2] = AxisSize \/ IsWhiteAt(is_white, r[2]))}

\* the axis holds exactly the two blocks b1, b2 (b1 first), each at least min_size long
TwoBlocks(b1, b2) ==
    /\ ContentRuns = {b1, b2}
    /\ b1[2] < b2[1]
    /\ b1[2] - b1[1] >= min_size
    /\ b2[2] - b2[1] >= min_size

\* C1: two content blocks, each at least min_size long, separated by one run of
\* g >= 1 blank lines: g >= min_gap gives exactly the two blocks, g < min_gap gives
\* exactly one interval from the first line of the first block to the end of the second.
C1_TwoBlocksSplitOrMerge ==
    pc = "scanned" =>
        \A b1, b2 \in ContentRuns :
            TwoBlocks(b1, b2) =>
                IF b2[1] - b1[2] >= min_gap
                THEN regions = <<b1, b2>>
                ELSE regions = << <<b1[1], b2[2]>> >>

C1_Witness_Split ==
    /\ pc = "scanned"
    /\ min_gap = 2
    /\ min_size = 2
    /\ \E b1, b2 \in ContentRuns : TwoBlocks(b1, b2) /\ b2[1] - b1[2] = 2
    /\ Len(regions) = 2

C1_Witness_Merge ==
    /\ pc = "scanned"
    /\ min_gap = 3
    /\ min_size = 2
    /\ \E b1, b2 \in ContentRuns : TwoBlocks(b1, b2) /\ b2[1] - b1[2] = 2
    /\ Len(regions) = 1

\* C2: every interval find_regions returns is at least min_size long.
C2_AcceptedAtLeastMinSize ==
    \A k \in 1..Len(regions) : regions[k][2] - regions[k][1] >= min_size

\* a region shorter than min_size was closed (by a separator or by the end of the
\* scan) and is not in the result, while another region is
C2_Witness ==
    /\ pc = "scanned"
    /\ min_size = 2
    /\ Len(regions) = 1
    /\ \E r \in ContentRuns : r[2] - r[1] = 1
    /\ Cardinality(ContentRuns) = 3

(***************************************************************************)
(* Pixels and images.  A pixel is its three channel values (the image is   *)
(* converted to RGB at line 109); an image is its shape and its pixels,    *)
(* px[row + 1][col + 1] being arr[row, col, :] of the source.              *)
(***************************************************************************)
White == <<255, 255, 255>>

Dark == <<0, 0, 0>>

Min(a, b) == IF a <= b THEN a ELSE b

\* arr[r, c, :]
PixelAt(img, r, c) == img.px[r + 1][c + 1]

\* arr[r, :, :] and arr[:, c, :], as sequences of pixels
RowPixels(img, r) == [k \in 1..img.width |-> PixelAt(img, r, k - 1)]

ColPixels(img, c) == [k \in 1..img.height |-> PixelAt(img, k - 1, c)]

\* arr[y1:y2, x1:x2, :] (line 173)
SubImage(img, y1, y2, x1, x2) ==
    [height |-> y2 - y1, width |-> x2 - x1,
     px |-> [r \in 1..(y2 - y1) |->
                [c \in 1..(x2 - x1) |-> PixelAt(img, y1 + r - 1, x1 + c - 1)]]]

(***************************************************************************)
(* trim_white_border (split_image.py 16-67).                               *)
(***************************************************************************)

\* the default of trim_threshold (line 104), passed as brightness_threshold (line 176)
TrimThreshold == 248

\* white_ratio = 0.80 (line 177), as numerator and denominator
TrimRatio == <<80, 100>>

\* line 28: np.mean(pixels, axis=-1) > brightness_threshold for one pixel;
\* the mean of three channels exceeds t exactly when their sum exceeds 3 t
BrightByMeanAtLeast(pixel, threshold) ==
    pixel[1] + pixel[2] + pixel[3] >= 3 * threshold

BrightByMean(pixel, threshold) ==
    pixel[1] + pixel[2] + pixel[3] > 3 * threshold

\* lines 27-30: is_edge_white(pixels); the fraction count / n is compared with the
\* ratio num / den
IsEdgeWhiteStrict(pixels, threshold, ratio) ==
    Cardinality({k \in 1..Len(pixels) : BrightByMean(pixels[k], threshold)}) * ratio[2]
        > ratio[1] * Len(pixels)

is_edge_white(pixels, threshold, ratio) ==
    Cardinality({k \in 1..Len(pixels) : BrightByMean(pixels[k], threshold)}) * ratio[2]
        >= ratio[1] * Len(pixels)

\* the line that is i lines inward from a side (lines 38, 46, 54, 62)
EdgeLineFromTop(img, side, i) ==
    CASE side \in {"t", "b"} -> RowPixels(img, i)
      [] side = "l" -> ColPixels(img, i)
      [] side = "r" -> ColPixels(img, img.width - 1 - i)

EdgeLine(img, side, i) ==
    CASE side = "t" -> RowPixels(img, i)
      [] side = "b" -> RowPixels(img, img.height - 1 - i)
      [] side = "l" -> ColPixels(img, i)
      [] side = "r" -> ColPixels(img, img.width - 1 - i)

\* lines 37, 45, 53, 61: range(min(max_trim, height // 4)), width for left and right
EdgeBoundHalf(img, side, mt) ==
    Min(mt, (IF side \in {"t", "b"} THEN img.height ELSE img.width) \div 2)

EdgeBoundNoMax(img, side, mt) ==
    (IF side \in {"t", "b"} THEN img.height ELSE img.width) \div 4

EdgeBound(img, side, mt) ==
    Min(mt, (IF side \in {"t", "b"} THEN img.height ELSE img.width) \div 4)

\* one of the four for loops: the count is i + 1 after each blank line, the loop
\* breaks at the first line that is not blank
RECURSIVE EdgeScan(_, _, _, _, _, _)
EdgeScan(img, side, threshold, ratio, bound, i) ==
    IF i < bound /\ is_edge_white(EdgeLine(img, side, i), threshold, ratio)
    THEN EdgeScan(img, side, threshold, ratio, bound, i + 1)
    ELSE i

\* lines 36, 44, 52, 60: a side that is not enabled keeps its count of 0 (line 32)
SideCountIgnoringSides(img, side, threshold, ratio, mt, enabled) ==
    EdgeScan(img, side, threshold, ratio, EdgeBound(img, side, mt), 0)

SideCount(img, side, threshold, ratio, mt, enabled) ==
    IF side \in enabled
    THEN EdgeScan(img, side, threshold, ratio, EdgeBound(img, side, mt), 0)
    ELSE 0

\* the returned (top, bottom, left, right) (line 67), as a record by side letter
trim_white_border(img, threshold, ratio, mt, enabled) ==
    [s \in {"t", "b", "l", "r"} |-> SideCount(img, s, threshold, ratio, mt, enabled)]

\* lines 181-184 and 192: the rectangle shrunk by the counts, as a sub-image
Cropped(img, t) ==
    SubImage(img, t["t"], img.height - t["b"], t["l"], img.width - t["r"])

(***************************************************************************)
(* Specification of trim_white_border alone.  The sub-images are white     *)
(* with a ragged dark corner: the first ragged[1] pixels of the first row, *)
(* the first ragged[2] of the second and the first ragged[3] of every      *)
(* other row are dark; turned = TRUE puts that corner at the bottom right. *)
(***************************************************************************)
MaxHeight == 8
MaxWidth == 5
MaxInk == 2
MaxTrim == 2

RaggedImage(h, w, ragged, turned) ==
    [height |-> h, width |-> w,
     px |-> [y \in 1..h |-> [x \in 1..w |->
                LET r == IF turned THEN h - y ELSE y - 1
                    c == IF turned THEN w - x ELSE x - 1
                    ink == IF r = 0 THEN ragged[1] ELSE IF r = 1 THEN ragged[2] ELSE ragged[3]
                IN  IF c < ink THEN Dark ELSE White]]]

SubImages ==
    {RaggedImage(h, w, ragged, turned) :
        h \in 1..MaxHeight, w \in 1..MaxWidth,
        ragged \in (0..MaxInk) \X (0..MaxInk) \X (0..MaxInk), turned \in BOOLEAN}

SideSets == SUBSET {"t", "b", "l", "r"}

MaxTrims == (-1)..MaxTrim

InitTrim ==
    /\ pc = "trim"
    /\ img_array \in SubImages
    /\ max_trim \in MaxTrims
    /\ sides \in SideSets
    /\ trimmed = Unused
    /\ retrimmed = Unused
    /\ RegionsUnused
    /\ SplitUnused
    /\ NamingUnused
    /\ MainUnused
    /\ DownloadUnused
    /\ LineUnused

CallTrim ==
    /\ pc = "trim"
    /\ trimmed' = trim_white_border(img_array, TrimThreshold, TrimRatio, max_trim, sides)
    /\ pc' = "trimmed"
    /\ UNCHANGED <<img_array, max_trim, sides, retrimmed, regionVars, splitVars, nameVars>>
    /\ UNCHANGED <<mainVars, downloadVars, lineVars>>

\* the same call on the sub-image cropped by the counts of the first
CallTrimAgain ==
    /\ pc = "trimmed"
    /\ retrimmed' = trim_white_border(Cropped(img_array, trimmed), TrimThreshold,
                                      TrimRatio, max_trim, sides)
    /\ pc' = "retrimmed"
    /\ UNCHANGED <<img_array, max_trim, sides, trimmed, regionVars, splitVars, nameVars>>
    /\ UNCHANGED <<mainVars, downloadVars, lineVars>>

NextTrim == CallTrim \/ CallTrimAgain

SpecTrim == InitTrim /\ [][NextTrim]_vars

(***************************************************************************)
(* Vocabulary of the claims about trim_white_border.                       *)
(***************************************************************************)
AllSides == {"t", "b", "l", "r"}

\* the dimension a side's scan is bounded by a quarter of
SideDimension(img, side) == IF side \in {"t", "b"} THEN img.height ELSE img.width

\* the first scan of a side ended at a line that is not blank, not at its bound
StoppedAtContent(side) == trimmed[side] < EdgeBound(img_array, side, max_trim)

\* C4 as stated: each count is >= 0 and <= min(max_trim, floor(dimension / 4)).
C4_Original_CountsWithinMaxTrimAndQuarter ==
    pc = "trimmed" =>
        \A s \in AllSides :
            /\ trimmed[s] >= 0
            /\ trimmed[s] <= Min(max_trim, SideDimension(img_array, s) \div 4)

\* C4 as amended: each count is >= 0 and <= floor(dimension / 4), and <= max_trim
\* when max_trim >= 0; with a negative max_trim every count is 0.
C4_CountsWithinBounds ==
    pc = "trimmed" =>
        \A s \in AllSides :
            /\ trimmed[s] >= 0
            /\ trimmed[s] <= SideDimension(img_array, s) \div 4
            /\ max_trim >= 0 => trimmed[s] <= max_trim
            /\ max_trim < 0 => trimmed[s] = 0

\* max_trim, not the quarter, is what stops the top scan: the line after is blank too
C4_Witness ==
    /\ pc = "trimmed"
    /\ max_trim = 1
    /\ img_array.height \div 4 = 2
    /\ trimmed["t"] = 1
    /\ is_edge_white(RowPixels(img_array, 1), TrimThreshold, TrimRatio)
    /\ trimmed["l"] = img_array.width \div 4
    /\ trimmed["l"] = 1

\* C5 as stated: when every enabled side stopped at a line that is not blank, the
\* second call on the cropped sub-image returns 0 for every enabled side.
C5_Original_Idempotent ==
    (pc = "retrimmed" /\ \A s \in sides : StoppedAtContent(s)) =>
        \A s \in sides : retrimmed[s] = 0

\* C5 as amended: the same, for enabled sides that lie on one axis (top and bottom
\* only, or left and right only), where cropping leaves the scanned lines as they were.
C5_IdempotentOnOneAxis ==
    (/\ pc = "retrimmed"
     /\ sides \subseteq {"t", "b"} \/ sides \subseteq {"l", "r"}
     /\ \A s \in sides : StoppedAtContent(s)) =>
        \A s \in sides : retrimmed[s] = 0

\* both sides of one axis trimmed something, stopped at content, and the second call
\* found nothing more
C5_Witness ==
    /\ pc = "retrimmed"
    /\ sides = {"t", "b"}
    /\ \A s \in sides : StoppedAtContent(s)
    /\ trimmed["b"] = 1
    /\ \A s \in sides : retrimmed[s] = 0

(***************************************************************************)
(* generate_output_filename (split_image.py 70-84).  A template is the     *)
(* sequence of its pieces, each a replacement field of str.format or a     *)
(* literal text.                                                           *)
(***************************************************************************)

\* line 72: n = row * total_cols + col
LinearIndexRowPlusCol(r, c, cols) == r + c

LinearIndex(r, c, cols) == r * cols + c

\* line 75: the index n % len(suffix_list) into the suffix list
SuffixIndexClamped(n, m) == Min(n, m - 1)

SuffixIndex(n, m) == n % m

\* lines 78-84: the value str.format puts for one piece of the template
FieldValueZeroBased(piece, base_name, r, c, n) ==
    CASE piece = "{name}" -> base_name
      [] piece = "{row}" -> ToString(r)
      [] piece = "{col}" -> ToString(c)
      [] piece = "{n}" -> ToString(n)
      [] piece = "{N}" -> ToString(n)
      [] OTHER -> piece

FieldValue(piece, base_name, r, c, n) ==
    CASE piece = "{name}" -> base_name
      [] piece = "{row}" -> ToString(r)
      [] piece = "{col}" -> ToString(c)
      [] piece = "{n}" -> ToString(n)
      [] piece = "{N}" -> ToString(n + 1)
      [] OTHER -> piece

\* suffix_template.format(name=..., row=..., col=..., n=..., N=...)
RECURSIVE FormatTemplate(_, _, _, _, _)
FormatTemplate(template, base_name, r, c, n) ==
    IF template = <<>>
    THEN ""
    ELSE FieldValue(Head(template), base_name, r, c, n)
            \o FormatTemplate(Tail(template), base_name, r, c, n)

\* lines 70-84; "if suffix_list" is false for None and for the empty list
generate_output_filename(base_name, r, c, cols, template, suffixes) ==
    LET n == LinearIndex(r, c, cols)
    IN  IF suffixes # <<>>
        THEN base_name \o suffixes[SuffixIndex(n, Len(suffixes)) + 1]
        ELSE FormatTemplate(template, base_name, r, c, n)

(***************************************************************************)
(* Specification of generate_output_filename alone: every cell (row, col)  *)
(* of a grid of total_cols columns, every suffix list below and the two    *)
(* templates.                                                              *)
(***************************************************************************)
MaxRow == 3
MaxTotalCols == 3
MaxSuffixes == 3

\* os.path.splitext(os.path.basename(image_path))[0] (line 164) of the input "base.png"
BaseName == "base"

SuffixPool == <<"_a", "_b", "_c", "_d", "_e", "_f">>

\* --suffixes="_a", "_a,_b", ... as parse_suffix_list returns them (lines 258-259)
SuffixLists == {SubSeq(SuffixPool, 1, m) : m \in 1..Min(MaxSuffixes, Len(SuffixPool))}

\* the default of --suffix (line 336)
DefaultTemplate == <<"{name}", "_", "{row}", "_", "{col}">>

\* --suffix "{name}_{N}" (line 278)
NumberedTemplate == <<"{name}", "_", "{N}">>

\* a template of both sequence numbers, {n} from 0 and {N} from 1 (lines 284-285)
IndexTemplate == <<"{name}", "_", "{n}", "_", "{N}">>

Templates == {DefaultTemplate, NumberedTemplate, IndexTemplate}

InitNaming ==
    /\ pc = "name"
    /\ row \in 0..MaxRow
    /\ total_cols \in 1..MaxTotalCols
    /\ col \in 0..(total_cols - 1)
    /\ \/ suffix_list \in SuffixLists /\ suffix_template = DefaultTemplate
       \/ suffix_list = <<>> /\ suffix_template \in Templates
    /\ output_name = Unused
    /\ shifted_name = Unused
    /\ RegionsUnused
    /\ TrimUnused
    /\ SplitUnused
    /\ MainUnused
    /\ DownloadUnused
    /\ LineUnused

CallGenerate ==
    /\ pc = "name"
    /\ output_name' = generate_output_filename(BaseName, row, col, total_cols,
                                               suffix_template, suffix_list)
    /\ pc' = "named"
    /\ UNCHANGED <<row, col, total_cols, shifted_name, suffix_template, suffix_list>>
    /\ UNCHANGED <<regionVars, trimVars, arr, white_threshold, white_ratio, trim, trim_max,
                   trim_threshold, trim_sides, h_regions, v_regions, warnings, vi, hi,
                   count, outputs>>
    /\ UNCHANGED <<mainVars, downloadVars, lineVars>>

\* the call for the cell whose linear index is len(suffix_list) further
CallGenerateShifted ==
    /\ pc = "named"
    /\ suffix_list # <<>>
    /\ LET n2 == LinearIndex(row, col, total_cols) + Len(suffix_list)
       IN  shifted_name' = generate_output_filename(BaseName, n2 \div total_cols,
                               n2 % total_cols, total_cols, suffix_template, suffix_list)
    /\ pc' = "shifted"
    /\ UNCHANGED <<row, col, total_cols, output_name, suffix_template, suffix_list>>
    /\ UNCHANGED <<regionVars, trimVars, arr, white_threshold, white_ratio, trim, trim_max,
                   trim_threshold, trim_sides, h_regions, v_regions, warnings, vi, hi,
                   count, outputs>>
    /\ UNCHANGED <<mainVars, downloadVars, lineVars>>

NextNaming == CallGenerate \/ CallGenerateShifted

SpecNaming == InitNaming /\ [][NextNaming]_vars

\* C6: in suffix-list mode with m >= 1 suffixes the name of linear index
\* n = row * total_cols + col is base_name + suffix_list[n mod m], and the indices n
\* and n + m receive the same name.
C6_CyclicSuffix ==
    (pc \in {"named", "shifted"} /\ suffix_list # <<>>) =>
        /\ output_name =
              BaseName \o suffix_list[((row * total_cols + col) % Len(suffix_list)) + 1]
        /\ pc = "shifted" => shifted_name = output_name

\* the index wrapped around a list of two suffixes: n = 3 is named base_b, and so is 5
C6_Witness ==
    /\ pc = "shifted"
    /\ suffix_list = <<"_a", "_b">>
    /\ row * total_cols + col = 3
    /\ output_name = "base_b"
    /\ shifted_name = "base_b"

(***************************************************************************)
(* split_composite_image (split_image.py 102-207).                         *)
(***************************************************************************)

\* the default of --threshold (line 313)
WhiteThreshold == 245

\* the default of --white-ratio, 0.99 (line 319), as numerator and denominator
SegRatio == <<99, 100>>

\* the default of --trim-max (line 325)
DefaultTrimMax == 10

\* lines 115 and 120: np.all(pixels > white_threshold, axis=1) for one pixel
WhiteByAll(pixel, threshold) == \A ch \in 1..3 : pixel[ch] > threshold

\* lines 115-116 and 120-121: np.mean(pixel_is_white) >= white_ratio
IsWhiteLine(pixels, threshold, ratio) ==
    Cardinality({k \in 1..Len(pixels) : WhiteByAll(pixels[k], threshold)}) * ratio[2]
        >= ratio[1] * Len(pixels)

\* lines 113-116
is_white_column(img, c, threshold, ratio) == IsWhiteLine(ColPixels(img, c), threshold, ratio)

\* lines 118-121
is_white_row(img, r, threshold, ratio) == IsWhiteLine(RowPixels(img, r), threshold, ratio)

\* line 124 for the two calls of lines 149 and 150
ColumnFlags(img, threshold, ratio) ==
    [k \in 1..img.width |-> is_white_column(img, k - 1, threshold, ratio)]

RowFlags(img, threshold, ratio) ==
    [k \in 1..img.height |-> is_white_row(img, k - 1, threshold, ratio)]

\* lines 152-155: an axis without regions becomes the whole axis
OrWholeAxisKeepEmpty(found, axis_size) == found

OrWholeAxis(found, axis_size) ==
    IF found = <<>> THEN << <<0, axis_size>> >> ELSE found

\* line 160: suffix_list and len(suffix_list) < total_images
ShouldWarnAtMost(suffixes, total_images) ==
    suffixes # <<>> /\ Len(suffixes) <= total_images

ShouldWarn(suffixes, total_images) ==
    suffixes # <<>> /\ Len(suffixes) < total_images

\* lines 170-184: the crop rectangle (x1, y1, x2, y2) of a cell and its trim counts
NoTrim == [s \in {"t", "b", "l", "r"} |-> 0]

CellTrim(img, y1, y2, x1, x2, on, threshold, mt, enabled) ==
    IF on
    THEN trim_white_border(SubImage(img, y1, y2, x1, x2), threshold, TrimRatio, mt, enabled)
    ELSE NoTrim

CropRect(y1, y2, x1, x2, t) ==
    <<x1 + t["l"], y1 + t["t"], x2 - t["r"], y2 - t["b"]>>

\* lines 109-157: open the image, classify its lines, find the regions of both axes
DetectRegions ==
    /\ pc = "open"
    /\ h_regions' = OrWholeAxis(
            find_regions(ColumnFlags(arr, white_threshold, white_ratio), arr.width,
                         min_size, min_gap), arr.width)
    /\ v_regions' = OrWholeAxis(
            find_regions(RowFlags(arr, white_threshold, white_ratio), arr.height,
                         min_size, min_gap), arr.height)
    /\ pc' = "detected"
    /\ UNCHANGED <<arr, white_threshold, white_ratio, trim, trim_max, trim_threshold,
                   trim_sides, suffix_template, suffix_list, warnings, vi, hi, count,
                   outputs>>
    /\ UNCHANGED <<regionVars, trimVars, row, col, total_cols, output_name, shifted_name>>
    /\ UNCHANGED <<mainVars, downloadVars, lineVars>>

\* lines 159-167: the cycling warning, the output directory, count = 0
WarnIfCycling ==
    /\ pc = "detected"
    /\ LET total_images == Len(h_regions) * Len(v_regions)
       IN  warnings' = IF ShouldWarn(suffix_list, total_images)
                       THEN Append(warnings, <<Len(suffix_list), total_images>>)
                       ELSE warnings
    /\ count' = 0
    /\ vi' = 0
    /\ hi' = 0
    /\ pc' = "loop"
    /\ UNCHANGED <<arr, white_threshold, white_ratio, trim, trim_max, trim_threshold,
                   trim_sides, suffix_template, suffix_list, h_regions, v_regions,
                   outputs>>
    /\ UNCHANGED <<regionVars, trimVars, row, col, total_cols, output_name, shifted_name>>
    /\ UNCHANGED <<mainVars, downloadVars, lineVars>>

\* lines 168-205: one pass of the inner loop, for the cell (vi, hi)
EmitSlice ==
    /\ pc = "loop"
    /\ vi < Len(v_regions)
    /\ LET y1 == v_regions[vi + 1][1]
           y2 == v_regions[vi + 1][2]
           x1 == h_regions[hi + 1][1]
           x2 == h_regions[hi + 1][2]
           t == CellTrim(arr, y1, y2, x1, x2, trim, trim_threshold, trim_max, trim_sides)
       IN  outputs' = Append(outputs,
               [name |-> generate_output_filename(BaseName, vi, hi, Len(h_regions),
                                                  suffix_template, suffix_list),
                row |-> vi, col |-> hi,
                cell |-> <<x1, y1, x2, y2>>,
                trimmed |-> t,
                crop |-> CropRect(y1, y2, x1, x2, t)])
    /\ count' = count + 1
    /\ IF hi + 1 < Len(h_regions)
       THEN hi' = hi + 1 /\ vi' = vi
       ELSE hi' = 0 /\ vi' = vi + 1
    /\ UNCHANGED <<pc, arr, white_threshold, white_ratio, trim, trim_max, trim_threshold,
                   trim_sides, suffix_template, suffix_list, h_regions, v_regions,
                   warnings>>
    /\ UNCHANGED <<regionVars, trimVars, row, col, total_cols, output_name, shifted_name>>
    /\ UNCHANGED <<mainVars, downloadVars, lineVars>>

\* line 207
ReturnCount ==
    /\ pc = "loop"
    /\ vi >= Len(v_regions)
    /\ pc' = "returned"
    /\ UNCHANGED <<regionVars, trimVars, splitVars, row, col, total_cols, output_name,
                   shifted_name>>
    /\ UNCHANGED <<mainVars, downloadVars, lineVars>>

NextSplit == DetectRegions \/ WarnIfCycling \/ EmitSlice \/ ReturnCount

(***************************************************************************)
(* The images of the runs: composites of at most MaxRows x MaxCols pixels, *)
(* an inked pixel wherever a content row meets a content column and white  *)
(* elsewhere, and the 300 x 200 image of the end-to-end scenarios.         *)
(***************************************************************************)
MaxRows == 3
MaxCols == 4

\* a light ink: not white for the segmentation (240 <= 245), bright for the trim
\* (mean 250 > 248)
Tint == <<255, 255, 240>>

Composite(rowContent, colContent, ink) ==
    [height |-> Len(rowContent), width |-> Len(colContent),
     px |-> [y \in 1..Len(rowContent) |-> [x \in 1..Len(colContent) |->
                IF rowContent[y] /\ colContent[x] THEN ink ELSE White]]]

SmallImages ==
    {Composite(rc, cc, ink) :
        rc \in UNION {BoolSeqs(h) : h \in 1..MaxRows},
        cc \in UNION {BoolSeqs(w) : w \in 1..MaxCols},
        ink \in {Dark, Tint}}

\* three 90 wide blocks separated by two 15 wide white gaps, 200 high
ScenarioImage ==
    Composite([k \in 1..200 |-> TRUE], [k \in 1..300 |-> ((k - 1) % 105) < 90],
              <<200, 60, 60>>)

SmallSizes == {1, 2}

\* --trim-max 0 and the default, which is larger than every cell of a small image
TrimDepths == {0, DefaultTrimMax}

InitSplit ==
    /\ pc = "open"
    /\ white_threshold = WhiteThreshold
    /\ white_ratio = SegRatio
    /\ trim_threshold = TrimThreshold
    /\ \/ /\ arr \in SmallImages
          /\ min_size \in SmallSizes
          /\ min_gap \in SmallSizes
          /\ trim = TRUE
          /\ trim_max \in TrimDepths
          /\ trim_sides \in SideSets
          /\ suffix_list = <<>>
          /\ suffix_template = DefaultTemplate
       \/ /\ arr \in SmallImages
          /\ min_size \in SmallSizes
          /\ min_gap \in SmallSizes
          /\ trim = FALSE
          /\ trim_max = DefaultTrimMax
          /\ trim_sides = {"t", "b", "l", "r"}
          /\ \/ suffix_list \in SuffixLists /\ suffix_template = DefaultTemplate
             \/ suffix_list = <<>> /\ suffix_template \in Templates
       \/ /\ arr = ScenarioImage
          /\ min_size = 50
          /\ min_gap \in {5, 20}
          /\ trim = FALSE
          /\ trim_max = DefaultTrimMax
          /\ trim_sides = {"t", "b", "l", "r"}
          /\ suffix_list = <<>>
          /\ suffix_template = DefaultTemplate
    /\ h_regions = <<>>
    /\ v_regions = <<>>
    /\ warnings = <<>>
    /\ vi = 0
    /\ hi = 0
    /\ count = 0
    /\ outputs = <<>>
    /\ is_white = Unused
    /\ regions = Unused
    /\ TrimUnused
    /\ row = Unused
    /\ col = Unused
    /\ total_cols = Unused
    /\ output_name = Unused
    /\ shifted_name = Unused
    /\ MainUnused
    /\ DownloadUnused
    /\ LineUnused

SpecSplit == InitSplit /\ [][NextSplit]_vars

(***************************************************************************)
(* Vocabulary of the claims about split_composite_image.                   *)
(***************************************************************************)
Detected == pc \in {"detected", "loop", "returned"}

OutputNames == [k \in 1..Len(outputs) |-> outputs[k].name]

\* the run of the end-to-end scenarios A and B
IsScenarioRun ==
    /\ arr.width = 300
    /\ arr.height = 200
    /\ arr = ScenarioImage
    /\ min_size = 50
    /\ white_ratio = SegRatio

\* C3: with trimming enabled the crop rectangle of every cell keeps at least one
\* pixel in each dimension: crop_x1 < crop_x2, crop_y1 < crop_y2, top + bottom <
\* cell height and left + right < cell width.
C3_CropKeepsAPixel ==
    trim = TRUE =>
        \A k \in 1..Len(outputs) :
            LET o == outputs[k] IN
            /\ o.crop[1] < o.crop[3]
            /\ o.crop[2] < o.crop[4]
            /\ o.trimmed["t"] + o.trimmed["b"] < o.cell[4] - o.cell[2]
            /\ o.trimmed["l"] + o.trimmed["r"] < o.cell[3] - o.cell[1]

\* a cell trimmed from both sides with a trim_max larger than the cell
C3_Witness ==
    /\ trim = TRUE
    /\ \E k \in 1..Len(outputs) :
          /\ outputs[k].trimmed["l"] >= 1
          /\ outputs[k].trimmed["r"] >= 1
          /\ trim_max > outputs[k].cell[3] - outputs[k].cell[1]

\* C7: scenario A (min_gap = 5): the column regions are (0,90), (105,195), (210,300),
\* the row region is (0,200), and exactly 3 slices are emitted from left to right.
C7_ScenarioA ==
    (IsScenarioRun /\ min_gap = 5) =>
        /\ Detected =>
              /\ h_regions = << <<0, 90>>, <<105, 195>>, <<210, 300>> >>
              /\ v_regions = << <<0, 200>> >>
        /\ \A k \in 1..Len(outputs) :
              /\ outputs[k].col = k - 1
              /\ outputs[k].crop = <<h_regions[k][1], 0, h_regions[k][2], 200>>
        /\ pc = "returned" => count = 3 /\ Len(outputs) = 3

C7_Witness ==
    /\ IsScenarioRun
    /\ min_gap = 5
    /\ pc = "returned"
    /\ count = 3
    /\ outputs[3].crop = <<210, 0, 300, 200>>

\* C8: scenario B (min_gap = 20): both 15 wide gaps are noise, the single column
\* region is (0,300) and exactly 1 slice is emitted.
C8_ScenarioB ==
    (IsScenarioRun /\ min_gap = 20) =>
        /\ Detected =>
              /\ h_regions = << <<0, 300>> >>
              /\ v_regions = << <<0, 200>> >>
        /\ \A k \in 1..Len(outputs) : outputs[k].crop = <<0, 0, 300, 200>>
        /\ pc = "returned" => count = 1 /\ Len(outputs) = 1

C8_Witness ==
    /\ IsScenarioRun
    /\ min_gap = 20
    /\ pc = "returned"
    /\ count = 1
    /\ outputs[1].crop = <<0, 0, 300, 200>>

\* C9: in template mode the slices are emitted row-major, the k-th emitted slice has
\* n = k - 1 and N = k, and "{name}_{N}" on a 2 x 2 grid names them base_1, base_2,
\* base_3, base_4 in that order.
C9_TemplateRowMajor ==
    (suffix_list = <<>> /\ Detected) =>
        /\ \A k \in 1..Len(outputs) :
              /\ outputs[k].row = (k - 1) \div Len(h_regions)
              /\ outputs[k].col = (k - 1) % Len(h_regions)
              /\ suffix_template = IndexTemplate =>
                    outputs[k].name = "base_" \o ToString(k - 1) \o "_" \o ToString(k)
              /\ suffix_template = NumberedTemplate =>
                    outputs[k].name = "base_" \o ToString(k)
        /\ pc = "returned" => Len(outputs) = Len(v_regions) * Len(h_regions)
        /\ (/\ pc = "returned"
            /\ suffix_template = NumberedTemplate
            /\ Len(v_regions) = 2
            /\ Len(h_regions) = 2) =>
                OutputNames = <<"base_1", "base_2", "base_3", "base_4">>

C9_Witness ==
    /\ pc = "returned"
    /\ suffix_list = <<>>
    /\ suffix_template = NumberedTemplate
    /\ Len(v_regions) = 2
    /\ Len(h_regions) = 2
    /\ OutputNames = <<"base_1", "base_2", "base_3", "base_4">>
    /\ [k \in 1..4 |-> <<outputs[k].row, outputs[k].col>>]
          = << <<0, 0>>, <<0, 1>>, <<1, 0>>, <<1, 1>> >>

\* C10: in suffix-list mode the cycling warning is printed exactly once for the image
\* when the list is shorter than rows x cols and never otherwise, whatever the number
\* of slices emitted; ["_a", "_b"] with 4 slices names them base_a, base_b, base_a,
\* base_b with exactly one warning.
C10_WarnOncePerImage ==
    suffix_list # <<>> =>
        /\ pc \in {"open", "detected"} => warnings = <<>>
        /\ pc \in {"loop", "returned"} =>
              Len(warnings) =
                  IF Len(suffix_list) < Len(v_regions) * Len(h_regions) THEN 1 ELSE 0
        /\ (pc = "returned" /\ suffix_list = <<"_a", "_b">> /\ count = 4) =>
              /\ OutputNames = <<"base_a", "base_b", "base_a", "base_b">>
              /\ Len(warnings) = 1

C10_Witness ==
    /\ pc = "returned"
    /\ suffix_list = <<"_a", "_b">>
    /\ count = 4
    /\ OutputNames = <<"base_a", "base_b", "base_a", "base_b">>
    /\ warnings = << <<2, 4>> >>

\* what find_regions returns for the two axes of the opened image (lines 149-150)
FoundColumns ==
    find_regions(ColumnFlags(arr, white_threshold, white_ratio), arr.width, min_size, min_gap)

FoundRows ==
    find_regions(RowFlags(arr, white_threshold, white_ratio), arr.height, min_size, min_gap)

\* C11: the grid is never empty: an axis for which find_regions returns no interval
\* (all lines blank, or every candidate shorter than min_size) is replaced by the single
\* interval (0, axis length), every image yields at least one slice and the returned
\* count is rows x cols >= 1.
C11_GridNeverEmpty ==
    Detected =>
        /\ Len(h_regions) >= 1
        /\ Len(v_regions) >= 1
        /\ pc = "detected" =>
              /\ FoundColumns = <<>> => h_regions = << <<0, arr.width>> >>
              /\ FoundRows = <<>> => v_regions = << <<0, arr.height>> >>
        /\ pc = "returned" =>
              /\ count = Len(v_regions) * Len(h_regions)
              /\ count >= 1
              /\ Len(outputs) = count

\* the columns hold content, but every candidate is shorter than min_size: the column
\* axis fell back to the whole width while the rows were detected
C11_Witness ==
    /\ pc = "returned"
    /\ FoundColumns = <<>>
    /\ \E c \in 0..(arr.width - 1) : ~is_white_column(arr, c, white_threshold, white_ratio)
    /\ FoundRows # <<>>
    /\ h_regions = << <<0, arr.width>> >>
    /\ count = Len(v_regions)
    /\ count = 1

(***************************************************************************)
(* main and process_directory (split_image.py 210-250 and 264-412).        *)
(* A file of the input is the record of its extension and of what          *)
(* split_composite_image does on it: fault = "open" when Image.open raises *)
(* (line 109), "save" when the first save_image raises (line 200), "none"  *)
(* when its slices are all saved.  The files of a directory are given in   *)
(* the order of sorted().  A string is the sequence of its characters.     *)
(***************************************************************************)

\* line 13
INPUT_EXTENSIONS == {".jpg", ".jpeg", ".png", ".webp", ".bmp", ".tiff", ".gif"}

\* str.lower() on one character of the strings of the runs
LowerChar(c) ==
    CASE c = "T" -> "t"
      [] c = "B" -> "b"
      [] c = "L" -> "l"
      [] c = "R" -> "r"
      [] OTHER -> c

\* str.lower() on an extension of the runs
LowerExt(e) == IF e = ".PNG" THEN ".png" ELSE e

\* line 348
valid_sides == {"t", "b", "l", "r"}

\* line 349: all(c in valid_sides for c in args.trim_sides.lower())
TrimSidesValidFirstOnly(text) ==
    text = <<>> \/ LowerChar(text[1]) \in valid_sides

TrimSidesValid(text) ==
    \A k \in 1..Len(text) : LowerChar(text[k]) \in valid_sides

\* lines 223 and 240: os.path.splitext(f)[1].lower() in INPUT_EXTENSIONS
IsImageFile(f) == LowerExt(f.ext) \in INPUT_EXTENSIONS

\* the directories process_directory visits: every directory of the walk when
\* recursive (line 215), input_dir alone otherwise (line 239)
NumDirs == IF args.recursive THEN Len(tree) ELSE 1

\* split_composite_image on the file f at position where: Image.open (line 109),
\* os.makedirs (line 163), the saves (line 200) and the returned count (line 207);
\* ok = FALSE when an exception leaves the call
SplitCall(f, where) ==
    [opened |-> Append(opened, where),
     made_dirs |-> IF f.fault = "open" THEN made_dirs ELSE made_dirs + 1,
     written |-> IF f.fault = "none" THEN written + f.slices ELSE written,
     count |-> f.slices,
     ok |-> f.fault = "none"]

\* lines 346-351: parse_args, then the validation of --trim-sides; parser.error
\* prints the usage and exits (status 2).  exit_status is "done" for return 0,
\* "not_found" for return 1, "traceback" for an exception that leaves main
ValidateArgs ==
    /\ pc = "main"
    /\ IF TrimSidesValid(args.trim_sides)
       THEN pc' = "configured" /\ exit_status' = exit_status
       ELSE pc' = "exited" /\ exit_status' = "config_error"
    /\ UNCHANGED <<args, input_kind, tree, di, fi, total, opened, made_dirs, written>>
    /\ UNCHANGED <<regionVars, trimVars, splitVars, nameVars, downloadVars, lineVars>>

\* lines 353-394 and 399-410: common_args, the banner, and the test of args.input
Dispatch ==
    /\ pc = "configured"
    /\ CASE input_kind = "file" -> pc' = "single" /\ exit_status' = exit_status
         [] input_kind = "dir" -> pc' = "batch" /\ exit_status' = exit_status
         [] OTHER -> pc' = "exited" /\ exit_status' = "not_found"
    /\ UNCHANGED <<args, input_kind, tree, di, fi, total, opened, made_dirs, written>>
    /\ UNCHANGED <<regionVars, trimVars, splitVars, nameVars, downloadVars, lineVars>>

\* lines 394-397: the single image; an exception of the call leaves main
ProcessSingle ==
    /\ pc = "single"
    /\ LET r == SplitCall(tree[1][1], <<0, 0>>)
       IN  /\ opened' = r.opened
           /\ made_dirs' = r.made_dirs
           /\ written' = r.written
           /\ total' = IF r.ok THEN r.count ELSE total
           /\ exit_status' = IF r.ok THEN "done" ELSE "traceback"
    /\ pc' = "exited"
    /\ UNCHANGED <<args, input_kind, tree, di, fi>>
    /\ UNCHANGED <<regionVars, trimVars, splitVars, nameVars, downloadVars, lineVars>>

\* lines 229-237 and 239-248: one pass of the loop over the files of a directory;
\* nothing catches an exception of split_composite_image, it leaves
\* process_directory and main
ProcessFile ==
    /\ pc = "batch"
    /\ di < NumDirs
    /\ fi < Len(tree[di + 1])
    /\ LET f == tree[di + 1][fi + 1]
           r == SplitCall(f, <<di, fi>>)
       IN  IF ~IsImageFile(f)
           THEN UNCHANGED <<pc, total, opened, made_dirs, written, exit_status>>
           ELSE /\ opened' = r.opened
                /\ made_dirs' = r.made_dirs
                /\ written' = r.written
                /\ total' = IF r.ok THEN total + r.count ELSE total
                /\ pc' = IF r.ok THEN pc ELSE "exited"
                /\ exit_status' = IF r.ok THEN exit_status ELSE "traceback"
    /\ fi' = fi + 1
    /\ UNCHANGED <<args, input_kind, tree, di>>
    /\ UNCHANGED <<regionVars, trimVars, splitVars, nameVars, downloadVars, lineVars>>

\* line 215: the walk moves to the next directory
NextDirectory ==
    /\ pc = "batch"
    /\ di < NumDirs
    /\ fi >= Len(tree[di + 1])
    /\ di' = di + 1
    /\ fi' = 0
    /\ UNCHANGED <<pc, args, input_kind, tree, total, opened, made_dirs, written,
                   exit_status>>
    /\ UNCHANGED <<regionVars, trimVars, splitVars, nameVars, downloadVars, lineVars>>

\* lines 250 and 405-412: return total, the summary, return 0
FinishBatch ==
    /\ pc = "batch"
    /\ di >= NumDirs
    /\ pc' = "exited"
    /\ exit_status' = "done"
    /\ UNCHANGED <<args, input_kind, tree, di, fi, total, opened, made_dirs, written>>
    /\ UNCHANGED <<regionVars, trimVars, splitVars, nameVars, downloadVars, lineVars>>

NextMain ==
    \/ ValidateArgs
    \/ Dispatch
    \/ ProcessSingle
    \/ ProcessFile
    \/ NextDirectory
    \/ FinishBatch

(***************************************************************************)
(* Specification of main: the batch runs walk every directory tree below   *)
(* with the default arguments; the configuration runs give every           *)
(* combination of the --trim-sides, --min-size and --min-gap values below  *)
(* on a single file, a directory of one file or a missing input.           *)
(***************************************************************************)
MaxFiles == 3
MaxDirs == 2

\* the defaults of --min-size (line 315) and --min-gap (line 317)
DefaultMinSize == 50

DefaultMinGap == 3

\* the default of --trim-sides (line 329)
DefaultTrimSides == <<"t", "b", "l", "r">>

\* a file that is no image cannot be opened as one
FileKinds ==
    {[ext |-> ".txt", fault |-> "open", slices |-> 0],
     [ext |-> ".PNG", fault |-> "none", slices |-> 1],
     [ext |-> ".png", fault |-> "none", slices |-> 2],
     [ext |-> ".png", fault |-> "open", slices |-> 0],
     [ext |-> ".jpg", fault |-> "save", slices |-> 1]}

FileLists(n) == UNION {[1..k -> FileKinds] : k \in 0..n}

FlatTrees == {<<files>> : files \in FileLists(MaxFiles)}

DeepTrees == UNION {[1..d -> FileLists(2)] : d \in 1..MaxDirs}

TrimSidesArgs ==
    {DefaultTrimSides, <<>>, <<"T", "B">>, <<"l", "r">>, <<"t", "x">>, <<"a", "b">>}

SizeArgs == {-1, 0, DefaultMinSize}

GapArgs == {-1, 0, DefaultMinGap}

InitMain ==
    /\ pc = "main"
    /\ \/ /\ args \in [trim_sides : {DefaultTrimSides}, min_size : {DefaultMinSize},
                       min_gap : {DefaultMinGap}, recursive : BOOLEAN]
          /\ input_kind = "dir"
          /\ tree \in IF args.recursive THEN DeepTrees ELSE FlatTrees
       \/ /\ args \in [trim_sides : TrimSidesArgs, min_size : SizeArgs,
                       min_gap : GapArgs, recursive : {FALSE}]
          /\ \/ input_kind \in {"file", "dir"} /\ tree \in {<< <<f>> >> : f \in FileKinds}
             \/ input_kind = "missing" /\ tree = << <<>> >>
    /\ di = 0
    /\ fi = 0
    /\ total = 0
    /\ opened = <<>>
    /\ made_dirs = 0
    /\ written = 0
    /\ exit_status = "running"
    /\ RegionsUnused
    /\ TrimUnused
    /\ SplitUnused
    /\ NamingUnused
    /\ DownloadUnused
    /\ LineUnused

SpecMain == InitMain /\ [][NextMain]_vars

(***************************************************************************)
(* Vocabulary of the claims about main and process_directory.              *)
(***************************************************************************)
NothingProcessed ==
    /\ opened = <<>>
    /\ made_dirs = 0
    /\ written = 0

\* the positions of the files of the batch, and the file at a position
BatchPositions ==
    {w \in (0..(NumDirs - 1)) \X (0..MaxFiles) : w[2] < Len(tree[w[1] + 1])}

FileAt(w) == tree[w[1] + 1][w[2] + 1]

\* the image files on which split_composite_image does not fail
GoodInputs ==
    {w \in BatchPositions : IsImageFile(FileAt(w)) /\ FileAt(w).fault = "none"}

FailingInputs ==
    {w \in BatchPositions : IsImageFile(FileAt(w)) /\ FileAt(w).fault # "none"}

WasOpened(w) == \E k \in 1..Len(opened) : opened[k] = w

RECURSIVE SlicesOf(_)
SlicesOf(positions) ==
    IF positions = {}
    THEN 0
    ELSE LET w == CHOOSE x \in positions : TRUE
         IN  FileAt(w).slices + SlicesOf(positions \ {w})

\* C12: in directory mode a file on which split_composite_image fails is skipped and
\* every remaining image file is still processed: when the run is over, every
\* non-failing input has been processed and its slices are counted and written.
C12_BatchSkipsFailedInputs ==
    (input_kind = "dir" /\ pc = "exited" /\ exit_status # "config_error") =>
        /\ \A w \in GoodInputs : WasOpened(w)
        /\ written = SlicesOf(GoodInputs)

\* C13: with min_size or min_gap zero or negative the run is rejected with a
\* configuration error before processing begins: no image is opened, no output
\* directory is created, no slice is written.
C13_NonPositiveSizesRejected ==
    (args.min_size <= 0 \/ args.min_gap <= 0) =>
        /\ NothingProcessed
        /\ pc \in {"main", "exited"}
        /\ pc = "exited" => exit_status = "config_error"

\* a character of --trim-sides outside t, b, l, r in either case
HasInvalidSide ==
    \E k \in 1..Len(args.trim_sides) :
        args.trim_sides[k] \notin {"t", "b", "l", "r", "T", "B", "L", "R"}

\* C14: when --trim-sides holds a character outside {t,b,l,r} (case-insensitively)
\* main raises the configuration error before any image is processed: the validation
\* precedes the first call of split_composite_image, and on a validation failure no
\* image is opened and no file is written.
C14_TrimSidesValidatedFirst ==
    /\ pc = "main" => NothingProcessed
    /\ HasInvalidSide =>
          /\ NothingProcessed
          /\ pc \in {"main", "exited"}
          /\ pc = "exited" => exit_status = "config_error"
    /\ ~HasInvalidSide => ~(pc = "exited" /\ exit_status = "config_error")

\* --trim-sides "tx" on an image that would have been split: the run ended with the
\* configuration error and nothing was opened
C14_Witness ==
    /\ pc = "exited"
    /\ exit_status = "config_error"
    /\ args.trim_sides = <<"t", "x">>
    /\ input_kind = "file"
    /\ tree[1][1].fault = "none"
    /\ NothingProcessed

(***************************************************************************)
(* Specification of the two line classifiers alone: both are applied, with *)
(* the same threshold and ratio, to every line of 1..MaxLine pixels of the *)
(* pool below.                                                             *)
(***************************************************************************)
MaxLine == 3

\* pixels at and around the two thresholds, with equal and with unequal channels
PixelPool ==
    {White, Dark, Tint, <<245, 245, 245>>, <<246, 246, 246>>, <<248, 248, 248>>,
     <<249, 249, 249>>, <<244, 246, 248>>}

Lines == UNION {[1..n -> PixelPool] : n \in 1..MaxLine}

\* the thresholds of the two classifiers (lines 313 and 327)
Thresholds == {WhiteThreshold, TrimThreshold}

\* 0.80 (line 177), 0.99 (line 319) and a half
Ratios == {TrimRatio, SegRatio, <<1, 2>>}

InitLine ==
    /\ pc = "line"
    /\ line_pixels \in Lines
    /\ white_threshold \in Thresholds
    /\ white_ratio \in Ratios
    /\ seg_blank = Unused
    /\ edge_blank = Unused
    /\ trim = Unused
    /\ trim_max = Unused
    /\ trim_threshold = Unused
    /\ trim_sides = Unused
    /\ h_regions = Unused
    /\ v_regions = Unused
    /\ warnings = Unused
    /\ arr = Unused
    /\ vi = Unused
    /\ hi = Unused
    /\ count = Unused
    /\ outputs = Unused
    /\ RegionsUnused
    /\ TrimUnused
    /\ NamingUnused
    /\ MainUnused
    /\ DownloadUnused

\* lines 113-121: the segmentation classifier on the line
ClassifyForSegmentation ==
    /\ pc = "line"
    /\ seg_blank' = IsWhiteLine(line_pixels, white_threshold, white_ratio)
    /\ pc' = "segmented"
    /\ UNCHANGED <<line_pixels, edge_blank>>
    /\ UNCHANGED <<regionVars, trimVars, splitVars, nameVars, mainVars, downloadVars>>

\* lines 27-30: the trim classifier on the same line
ClassifyForTrim ==
    /\ pc = "segmented"
    /\ edge_blank' = is_edge_white(line_pixels, white_threshold, white_ratio)
    /\ pc' = "classified"
    /\ UNCHANGED <<line_pixels, seg_blank>>
    /\ UNCHANGED <<regionVars, trimVars, splitVars, nameVars, mainVars, downloadVars>>

NextLine == ClassifyForSegmentation \/ ClassifyForTrim

SpecLine == InitLine /\ [][NextLine]_vars

(***************************************************************************)
(* Vocabulary of the claims about the line classifiers.                    *)
(***************************************************************************)
LineLength == Len(line_pixels)

\* the pixels of the line whose mean channel value is > the threshold
MeanBrightCount ==
    Cardinality({k \in 1..LineLength :
        line_pixels[k][1] + line_pixels[k][2] + line_pixels[k][3] > 3 * white_threshold})

\* the pixels of the line each of whose channel values is > the threshold
AllBrightCount ==
    Cardinality({k \in 1..LineLength :
        /\ line_pixels[k][1] > white_threshold
        /\ line_pixels[k][2] > white_threshold
        /\ line_pixels[k][3] > white_threshold})

\* count / length >= ratio
FractionAtLeast(n, ratio) == n * ratio[2] >= ratio[1] * LineLength

GrayLine == \A k \in 1..LineLength : line_pixels[k][1] = line_pixels[k][2]
                                     /\ line_pixels[k][2] = line_pixels[k][3]

\* C15 as stated: both classifiers call a line blank exactly when the fraction of its
\* pixels whose mean channel value is > threshold is >= ratio.
C15_Original_BothByMean ==
    pc = "classified" =>
        /\ seg_blank = FractionAtLeast(MeanBrightCount, white_ratio)
        /\ edge_blank = FractionAtLeast(MeanBrightCount, white_ratio)

\* C15 as amended: the trim classifier counts the pixels whose mean channel value is
\* > threshold, the segmentation classifier the pixels each of whose three channel
\* values is > threshold; each calls the line blank exactly when its count / length is
\* >= ratio.  With one threshold and ratio a line blank for the segmentation is blank
\* for the trim, and the two agree on lines of pixels with three equal channels.
C15_ClassifiersByMeanAndByAll ==
    pc = "classified" =>
        /\ edge_blank = FractionAtLeast(MeanBrightCount, white_ratio)
        /\ seg_blank = FractionAtLeast(AllBrightCount, white_ratio)
        /\ seg_blank => edge_blank
        /\ GrayLine => seg_blank = edge_blank

\* a line holding a pixel of mean 250 with one channel at 240: content for the
\* segmentation, blank for the trim, at the threshold 245
C15_Witness ==
    /\ pc = "classified"
    /\ white_threshold = WhiteThreshold
    /\ \E k \in 1..LineLength : line_pixels[k] = Tint
    /\ LineLength = 2
    /\ seg_blank = FALSE
    /\ edge_blank = TRUE

\* the count trim_white_border returns for a side when it is the only side enabled
SoloCount(side) ==
    trim_white_border(img_array, TrimThreshold, TrimRatio, max_trim, {side})[side]

\* the line of the original sub-image k lines inward from a side is blank for the trim
\* classifier: at least 80 in 100 of its pixels have a mean channel value > 248
BlankInward(side, k) ==
    LET h == img_array.height
        w == img_array.width
        line == CASE side = "t" -> [x \in 1..w |-> img_array.px[k + 1][x]]
                  [] side = "b" -> [x \in 1..w |-> img_array.px[h - k][x]]
                  [] side = "l" -> [y \in 1..h |-> img_array.px[y][k + 1]]
                  [] side = "r" -> [y \in 1..h |-> img_array.px[y][w - k]]
        bright == {j \in 1..Len(line) : line[j][1] + line[j][2] + line[j][3] > 3 * 248}
    IN  100 * Cardinality(bright) >= 80 * Len(line)

\* the most lines a scan may take: max_trim and a quarter of the dimension
ScanCap(side) ==
    LET quarter == SideDimension(img_array, side) \div 4
        cap == IF max_trim < quarter THEN max_trim ELSE quarter
    IN  IF cap < 0 THEN 0 ELSE cap

\* C16: the count of each side depends on the original sub-image, the threshold, the
\* ratio, max_trim and whether that side is enabled only: the count of an enabled side
\* is the one returned when it is the only side enabled, whichever other sides are
\* enabled, and the count of a side that is not enabled is 0.
C16_SidesIndependent ==
    pc \in {"trimmed", "retrimmed"} =>
        \A s \in AllSides :
            /\ s \in sides =>
                  /\ trimmed[s] = SoloCount(s)
                  /\ trimmed[s] \in 0..ScanCap(s)
                  /\ \A k \in 0..(trimmed[s] - 1) : BlankInward(s, k)
                  /\ trimmed[s] < ScanCap(s) => ~BlankInward(s, trimmed[s])
            /\ s \notin sides => trimmed[s] = 0

\* top and left are enabled and both trimmed; bottom is not enabled and its count is
\* 0 although its edge line is blank
C16_Witness ==
    /\ pc = "trimmed"
    /\ sides = {"t", "l"}
    /\ trimmed["t"] >= 1
    /\ trimmed["l"] >= 1
    /\ SoloCount("b") >= 1
    /\ trimmed["b"] = 0

\* C17: for min_size >= 1 and min_gap >= 1 the intervals find_regions returns satisfy
\* 0 <= start < end <= axis length, are in strictly ascending order and are pairwise
\* disjoint: each interval's end is <= the next interval's start.
C17_IntervalsOrderedDisjoint ==
    (pc = "scanned" /\ min_size >= 1 /\ min_gap >= 1) =>
        /\ \A k \in 1..Len(regions) :
              /\ 0 <= regions[k][1]
              /\ regions[k][1] < regions[k][2]
              /\ regions[k][2] <= AxisSize
        /\ \A k \in 1..(Len(regions) - 1) :
              /\ regions[k][1] < regions[k + 1][1]
              /\ regions[k][2] <= regions[k + 1][1]

\* three intervals were returned, the first from line 0 and the last to the axis end
C17_Witness ==
    /\ pc = "scanned"
    /\ min_size = 1
    /\ min_gap = 2
    /\ Len(regions) = 3
    /\ regions[1][1] = 0
    /\ regions[3][2] = AxisSize

\* C18: every interval (start, end) find_regions returns begins and ends on a content
\* line: the lines start and end - 1 are content.  A blank run that reaches the axis
\* end closes the open region at the first line of the run even when the run is
\* shorter than min_gap: trailing blank lines are in no interval.
C18_IntervalsEndOnContent ==
    pc = "scanned" =>
        /\ \A k \in 1..Len(regions) :
              /\ ~IsWhiteAt(is_white, regions[k][1])
              /\ ~IsWhiteAt(is_white, regions[k][2] - 1)
        /\ \A t \in 0..(AxisSize - 1) :
              (\A j \in t..(AxisSize - 1) : IsWhiteAt(is_white, j)) =>
                  \A k \in 1..Len(regions) : regions[k][2] <= t

\* one trailing blank line with min_gap = 3: the last interval ends right before it,
\* while a blank run of two lines inside that interval did not split it
C18_Witness ==
    /\ pc = "scanned"
    /\ min_gap = 3
    /\ min_size = 1
    /\ AxisSize = 7
    /\ IsWhiteAt(is_white, AxisSize - 1)
    /\ ~IsWhiteAt(is_white, AxisSize - 2)
    /\ regions = << <<0, AxisSize - 1>> >>
    /\ IsWhiteAt(is_white, 2)
    /\ IsWhiteAt(is_white, 3)

(***************************************************************************)
(* ImageDownloader.download_all (download_images.py 383-439).  A URL is    *)
(* the record of its last path segment and its query string.  How the      *)
(* download of the k-th URL goes is fetch_ok[k]: "ok", "request" when      *)
(* session.get or raise_for_status raises a RequestException (lines        *)
(* 319-320), "io" when writing or reading the file raises (lines 322-329). *)
(* The sha256 and size of a metadata entry are those of the file written.  *)
(***************************************************************************)

\* lines 305-311: the custom name of the index when there is one, else
\* os.path.basename(url).split('?')[0]
get_filename(url, index, names) ==
    IF index < Len(names) /\ names[index + 1] # ""
    THEN names[index + 1]
    ELSE url.name

\* lines 313-347: download_image returns True after metadata.append, False from
\* either except clause
download_imageAppendsOnResponse(url, filename, outcome, md) ==
    [ok |-> outcome = "ok",
     metadata |-> IF outcome \in {"ok", "io"}
                  THEN Append(md, [file |-> filename, source |-> url])
                  ELSE md]

download_image(url, filename, outcome, md) ==
    [ok |-> outcome = "ok",
     metadata |-> IF outcome = "ok"
                  THEN Append(md, [file |-> filename, source |-> url])
                  ELSE md]

\* lines 384-414: the banner, create_directory, get_image_urls, the two counters
StartDownloads ==
    /\ pc = "start"
    /\ success_count' = 0
    /\ failed_count' = 0
    /\ url_index' = 0
    /\ pc' = "downloading"
    /\ UNCHANGED <<image_urls, filenames, fetch_ok, metadata, attempts, metadata_file>>
    /\ UNCHANGED <<regionVars, trimVars, splitVars, nameVars, mainVars, lineVars>>

\* lines 416-423: one pass of the loop
DownloadOne ==
    /\ pc = "downloading"
    /\ url_index < Len(image_urls)
    /\ LET url == image_urls[url_index + 1]
           r == download_image(url, get_filename(url, url_index, filenames),
                               fetch_ok[url_index + 1], metadata)
       IN  /\ attempts' = Append(attempts, url)
           /\ metadata' = r.metadata
           /\ success_count' = IF r.ok THEN success_count + 1 ELSE success_count
           /\ failed_count' = IF r.ok THEN failed_count ELSE failed_count + 1
    /\ url_index' = url_index + 1
    /\ UNCHANGED <<pc, image_urls, filenames, fetch_ok, metadata_file>>
    /\ UNCHANGED <<regionVars, trimVars, splitVars, nameVars, mainVars, lineVars>>

\* lines 425-439 and 358-381: save_metadata writes the list, or fails and returns
\* False, which download_all ignores; then the summary and the return
SaveAndReturn ==
    /\ pc = "downloading"
    /\ url_index >= Len(image_urls)
    /\ \E saved \in BOOLEAN :
          metadata_file' = IF saved
                           THEN <<[total_images |-> Len(metadata), images |-> metadata]>>
                           ELSE metadata_file
    /\ pc' = "returned"
    /\ UNCHANGED <<image_urls, filenames, fetch_ok, url_index, success_count, failed_count,
                   metadata, attempts>>
    /\ UNCHANGED <<regionVars, trimVars, splitVars, nameVars, mainVars, lineVars>>

NextDownload == StartDownloads \/ DownloadOne \/ SaveAndReturn

(***************************************************************************)
(* Specification of download_all: every list of at most MaxUrls URLs of    *)
(* the pool (a URL may occur twice), every pattern of outcomes.            *)
(***************************************************************************)
MaxUrls == 3

UrlPool ==
    {[name |-> "1.png", query |-> ""],
     [name |-> "2.png", query |-> "?v=2"],
     [name |-> "3.jpg", query |-> ""]}

Outcomes == {"ok", "request", "io"}

\* --filenames as _parse_filenames returns it (lines 59-63)
FilenameLists == {<<>>, <<"a.png">>, <<"a.png", "b.png">>}

InitDownload ==
    /\ pc = "start"
    /\ \E n \in 0..MaxUrls :
          /\ image_urls \in [1..n -> UrlPool]
          /\ fetch_ok \in [1..n -> Outcomes]
    /\ filenames \in FilenameLists
    /\ url_index = 0
    /\ success_count = 0
    /\ failed_count = 0
    /\ metadata = <<>>
    /\ attempts = <<>>
    /\ metadata_file = <<>>
    /\ RegionsUnused
    /\ TrimUnused
    /\ SplitUnused
    /\ NamingUnused
    /\ MainUnused
    /\ LineUnused

SpecDownload == InitDownload /\ [][NextDownload]_vars

(***************************************************************************)
(* Vocabulary of the claims about download_all.                            *)
(***************************************************************************)
\* the URLs among the first n whose download succeeds, in list order
RECURSIVE SucceededAmong(_)
SucceededAmong(n) ==
    IF n = 0
    THEN <<>>
    ELSE IF fetch_ok[n] = "ok"
    THEN Append(SucceededAmong(n - 1), image_urls[n])
    ELSE SucceededAmong(n - 1)

MetadataSources == [k \in 1..Len(metadata) |-> metadata[k].source]

\* C19: each URL is attempted exactly once, in list order, whatever failed before;
\* at the end success_count + failed_count is the number of URLs and the metadata
\* list holds exactly success_count entries, one per successful download in download
\* order.
C19_EveryUrlAttemptedOnce ==
    pc \in {"downloading", "returned"} =>
        /\ attempts = SubSeq(image_urls, 1, url_index)
        /\ success_count + failed_count = url_index
        /\ Len(metadata) = success_count
        /\ MetadataSources = SucceededAmong(url_index)
        /\ pc = "returned" =>
              /\ attempts = image_urls
              /\ success_count + failed_count = Len(image_urls)
              /\ metadata_file # <<>> =>
                    /\ metadata_file[1].total_images = success_count
                    /\ metadata_file[1].images = metadata

\* three URLs, the first fails on the request and the second on the file: the third
\* is still attempted and is the only entry of the metadata
C19_Witness ==
    /\ pc = "returned"
    /\ Len(image_urls) = 3
    /\ fetch_ok = <<"request", "io", "ok">>
    /\ Len(attempts) = 3
    /\ success_count = 1
    /\ failed_count = 2
    /\ MetadataSources = <<image_urls[3]>>
    /\ metadata_file # <<>>
====
